---- MODULE Spec2Model ----
(***************************************************************************)
(* Model of src/crawler.py: the asyncio crawler of news.ycombinator.com.   *)
(*                                                                         *)
(* The state is the position of the coroutine main() (pc), the coroutines  *)
(* handed to asyncio.gather (tasks), the local variables of main, the      *)
(* folders and files under options.folder and the exit status of the       *)
(* process.  The environment is the remote site (the index listing and the *)
(* links of every comment thread, fixed for a behaviour), the status of    *)
(* each HTTP response, transport faults and storage faults.                *)
(*                                                                         *)
(* One step of a coroutine runs from one await to the next.  Durations are *)
(* abstracted: a response may arrive, a sleep may return and the timer of  *)
(* asyncio.wait_for may fire at any moment.  options.folder is taken to    *)
(* exist, and distinct URLs to have distinct basenames.                    *)
(***************************************************************************)
EXTENDS Integers, Sequences, FiniteSets, TLC

(* ---- bounds of the environment and of the options ---- *)
MaxArticles == 2
MaxLinks == 2
MaxConnections == 2
MaxCycles == 2
BodyChunks == 2
max_retry == 2

(* Bounds of the inputs of split_list when it is checked on its own. *)
MaxSplitLen == 4
MaxGroupSize == 3

VARIABLES
    site,             \* the remote listing: one record per story of the index page
    max_connections,  \* options.max_connections
    pc,               \* where main() is
    cycle,            \* number of passes of the while loop that went past the check
    errors,           \* main: errors
    a_urls,           \* main: a_urls
    c_urls,           \* main: c_urls
    all_comment_urls, \* main: all_comment_urls
    gi,               \* main: index (1-based) of the group the for loop is at
    tasks,            \* the coroutines of the current await (gather, or the index fetch)
    present,          \* articles of this cycle whose folder was found to exist
    scheduled,        \* <<url, folder>> of every download_html scheduled in this cycle
    folders,          \* content store: the folders that exist
    files,            \* content store: file name -> the chunks written, in order
    handles,          \* the files that are open in the process
    store0,           \* what the content store held when the cycle began
    exit_status,      \* "running", "exit0" (normal end), "exit1" (sys.exit(1))
    top_exc,          \* the exception caught at line 166, "none" if none
    arg_main_list,    \* a call of split_list: main_list
    arg_len_sublists, \* a call of split_list: len_sublists
    ret_groups        \* a call of split_list: what it returned, <<>> before

vars == <<site, max_connections, pc, cycle, errors, a_urls, c_urls,
          all_comment_urls, gi, tasks, present, scheduled, folders, files,
          handles, store0, exit_status, top_exc, arg_main_list,
          arg_len_sublists, ret_groups>>

mainVars == <<pc, cycle, errors, a_urls, c_urls, all_comment_urls, gi,
              present, scheduled, store0>>
storeVars == <<folders, files, handles>>
procVars == <<exit_status, top_exc>>
envVars == <<site, max_connections>>
splitVars == <<arg_main_list, arg_len_sublists, ret_groups>>

(* ---- URLs ---- *)
MAIN_URL == <<"main", 0, 0>>
None == <<"none", 0, 0>>
ArticleUrl(i) == <<"a", i, 0>>
CommentsUrl(i) == <<"c", i, 0>>
LinkUrl(i, j) == <<"l", i, j>>

basename(url) == url[2]

(* ---- the remote site ---- *)
Entries == {[comments |-> FALSE, links |-> 0]}
           \cup {[comments |-> TRUE, links |-> k] : k \in 0..MaxLinks}

RECURSIVE TotalLinks(_)
TotalLinks(listing) ==
    IF listing = <<>> THEN 0
    ELSE Head(listing).links + TotalLinks(Tail(listing))

(* The listings of the model: at most MaxArticles stories whose threads    *)
(* hold at most MaxLinks links together.                                   *)
Listings ==
    {l \in UNION {[1..n -> Entries] : n \in 0..MaxArticles} :
        TotalLinks(l) <= MaxLinks}

(* The links of the comment thread of story i, in page order. *)
ThreadLinks(i) == [j \in 1..site[i].links |-> LinkUrl(i, j)]

(* ---- pure functions ---- *)
Min(a, b) == IF a <= b THEN a ELSE b

parse_main_page(html_page) ==
    <<[i \in 1..Len(site) |-> ArticleUrl(i)],
      [i \in 1..Len(site) |-> IF site[i].comments THEN CommentsUrl(i) ELSE None]>>

parse_comments_page(html_page) == ThreadLinks(html_page[2])

RECURSIVE split_loop_wide(_, _, _, _)
split_loop_wide(groups_of_lists, main_list, i_url, len_sublists) ==
    IF i_url >= Len(main_list) THEN groups_of_lists
    ELSE LET opened == IF i_url % (len_sublists + 1) = 0
                       THEN Append(groups_of_lists, <<>>)
                       ELSE groups_of_lists
             filled == [opened EXCEPT ![Len(opened)] =
                                          Append(@, main_list[i_url + 1])]
         IN split_loop_wide(filled, main_list, i_url + 1, len_sublists)

RECURSIVE split_loop(_, _, _, _)
split_loop(groups_of_lists, main_list, i_url, len_sublists) ==
    IF i_url >= Len(main_list) THEN groups_of_lists
    ELSE LET opened == IF i_url % len_sublists = 0
                       THEN Append(groups_of_lists, <<>>)
                       ELSE groups_of_lists
             filled == [opened EXCEPT ![Len(opened)] =
                                          Append(@, main_list[i_url + 1])]
         IN split_loop(filled, main_list, i_url + 1, len_sublists)

split_list(main_list, len_sublists) ==
    split_loop(<<>>, main_list, 0, len_sublists)

zip(s, t) == [k \in 1..Min(Len(s), Len(t)) |-> <<s[k], t[k]>>]

(* ---- coroutines ---- *)
Active(t) == t.pc \notin {"done", "raised"}

NewTask(kind, url, folder) ==
    [kind |-> kind, url |-> url, folder |-> folder, pc |-> "get",
     gets |-> 1, sleeps |-> 0, ret |-> "none", exc |-> "none",
     result |-> <<>>, left |-> 0]

MoreAttemptsOffByOne(gets) == gets <= max_retry
MoreAttempts(gets) == gets < max_retry

filename(folder, url) == <<folder, url>>

Init ==
    /\ site \in Listings
    /\ max_connections \in 1..MaxConnections
    /\ pc = "start"
    /\ cycle = 0
    /\ errors = <<>>
    /\ a_urls = <<>>
    /\ c_urls = <<>>
    /\ all_comment_urls = <<>>
    /\ gi = 1
    /\ tasks = <<>>
    /\ present = {}
    /\ scheduled = <<>>
    /\ folders = {}
    /\ files = [n \in {} |-> <<>>]
    /\ handles = {}
    /\ store0 = [folders |-> {}, files |-> [n \in {} |-> <<>>]]
    /\ exit_status = "running"
    /\ top_exc = "none"
    /\ arg_main_list = <<>>
    /\ arg_len_sublists = 1
    /\ ret_groups = <<>>

Running == exit_status = "running"

(***************************************************************************)
(* The fetch loop shared by get_page_by_url and download_html.             *)
(***************************************************************************)
Statuses == {200, 503}

(* A coroutine ends by raising.  The counters of the for loop go with it. *)
Raised(t, ret, exc) ==
    [t EXCEPT !.pc = "raised", !.ret = ret, !.exc = exc,
              !.gets = 0, !.sleeps = 0, !.left = 0]

(* What a coroutine does with the page its fetch returned.  get_urls_from_ *)
(* main and get_urls_from_comments hand it to the parser; html_page is the *)
(* URL of the page, or None after an exhausted fetch, on which             *)
(* BeautifulSoup raises TypeError.                                         *)
Parsed(t, html_page) ==
    IF html_page = None
    THEN [t EXCEPT !.pc = "raised", !.exc = "TypeError"]
    ELSE [t EXCEPT !.pc = "done",
                   !.result = IF t.kind = "index"
                              THEN parse_main_page(html_page)
                              ELSE parse_comments_page(html_page)]

ExhaustedSavesAnyway(t) ==
    IF t.kind = "download"
    THEN [t EXCEPT !.pc = "exists", !.ret = "empty"]
    ELSE Parsed([t EXCEPT !.ret = "empty"], None)

(* The for loop is over: the fetch returns None.  gets and sleeps stay in  *)
(* the record as the account of the exhausted fetch.                       *)
Exhausted(t) ==
    IF t.kind = "download"
    THEN [t EXCEPT !.pc = "done", !.ret = "empty"]
    ELSE Parsed([t EXCEPT !.ret = "empty"], None)

(* The status is 200: the for loop is left through return. *)
Fetched(t) ==
    LET left_loop == [t EXCEPT !.gets = 0, !.sleeps = 0]
    IN IF t.kind = "download" THEN [left_loop EXCEPT !.pc = "exists"]
       ELSE Parsed([left_loop EXCEPT !.ret = "page"], t.url)

(* main() awaits the coroutines of tasks, directly or through gather. *)
Awaiting == pc \in {"index", "gather_h", "gather_d"}

(* Coroutine n moves to state t.  When it raises while main() awaits it,   *)
(* the exception reaches the except of line 144: errors.append(e), then    *)
(* the sleep of line 148.  gather does not cancel the other coroutines,    *)
(* which run on.  Only the first exception of a gather reaches main().     *)
Step(n, t) ==
    /\ tasks' = [tasks EXCEPT ![n] = t]
    /\ IF t.pc = "raised" /\ Awaiting
       THEN /\ errors' = Append(errors, [exc |-> t.exc, origin |-> t.kind])
            /\ pc' = "sleep"
       ELSE UNCHANGED <<pc, errors>>
    /\ UNCHANGED <<cycle, a_urls, c_urls, all_comment_urls, gi, present,
                   scheduled, store0, procVars, envVars, splitVars>>

(* session.get(url) answers with a status. *)
Respond(n, status) ==
    /\ Running
    /\ n \in DOMAIN tasks
    /\ tasks[n].pc = "get"
    /\ Step(n, IF status # 200 THEN [tasks[n] EXCEPT !.pc = "sleep"]
               ELSE Fetched(tasks[n]))
    /\ UNCHANGED storeVars

(* session.get(url) raises: connection refused, DNS failure, timeout. *)
TransportFault(n) ==
    /\ Running
    /\ n \in DOMAIN tasks
    /\ tasks[n].pc = "get"
    /\ Step(n, Raised(tasks[n], "exc", "ClientError"))
    /\ UNCHANGED storeVars

(* asyncio.sleep(options.time_retry) returns; continue. *)
RetrySleepDone(n) ==
    /\ Running
    /\ n \in DOMAIN tasks
    /\ tasks[n].pc = "sleep"
    /\ LET slept == [tasks[n] EXCEPT !.sleeps = @ + 1]
       IN Step(n, IF MoreAttempts(slept.gets)
                  THEN [slept EXCEPT !.pc = "get", !.gets = @ + 1]
                  ELSE Exhausted(slept))
    /\ UNCHANGED storeVars

(***************************************************************************)
(* download_html after a 200 response, and save_page.                      *)
(***************************************************************************)
(* aiofiles.os.path.exists(folder) *)
FolderExists(n) ==
    /\ Running
    /\ n \in DOMAIN tasks
    /\ tasks[n].pc = "exists"
    /\ Step(n, [tasks[n] EXCEPT !.pc = IF tasks[n].folder \in folders
                                       THEN "open" ELSE "mkdir"])
    /\ UNCHANGED storeVars

(* aiofiles.os.mkdir(folder): FileExistsError when the folder is there. *)
Mkdir(n) ==
    /\ Running
    /\ n \in DOMAIN tasks
    /\ tasks[n].pc = "mkdir"
    /\ IF tasks[n].folder \in folders
       THEN /\ Step(n, Raised(tasks[n], "exc", "FileExistsError"))
            /\ UNCHANGED folders
       ELSE /\ Step(n, [tasks[n] EXCEPT !.pc = "open"])
            /\ folders' = folders \cup {tasks[n].folder}
    /\ UNCHANGED <<files, handles>>

(* async with aiofiles.open(...) as f is left, normally, by an exception   *)
(* or by the cancellation of the coroutine: the files it holds are closed. *)
aexit_leak(open_files, closing) == open_files
aexit(open_files, closing) == open_files \ closing

(* aiofiles.open(filename, 'wb'): the file is created or truncated. *)
OpenFile(n) ==
    /\ Running
    /\ n \in DOMAIN tasks
    /\ tasks[n].pc = "open"
    /\ LET name == filename(tasks[n].folder, tasks[n].url)
       IN /\ files' = [f \in DOMAIN files \cup {name} |->
                           IF f = name THEN <<>> ELSE files[f]]
          /\ handles' = handles \cup {name}
    /\ Step(n, [tasks[n] EXCEPT !.pc = "read", !.left = BodyChunks])
    /\ UNCHANGED folders

(* One turn of the while loop of save_page: read a chunk and write it, or  *)
(* read the empty chunk, leave the async with, which closes the file, and  *)
(* release the response.  The chunks of a body are numbered 1..BodyChunks. *)
ReadChunk(n) ==
    /\ Running
    /\ n \in DOMAIN tasks
    /\ tasks[n].pc = "read"
    /\ LET name == filename(tasks[n].folder, tasks[n].url)
           chunk == BodyChunks - tasks[n].left + 1
       IN IF tasks[n].left = 0
          THEN /\ Step(n, [tasks[n] EXCEPT !.pc = "done", !.ret = "page"])
               /\ handles' = aexit(handles, {name})
               /\ UNCHANGED files
          ELSE /\ Step(n, [tasks[n] EXCEPT !.left = @ - 1])
               /\ files' = [files EXCEPT ![name] = Append(@, chunk)]
               /\ UNCHANGED handles
    /\ UNCHANGED folders

(* res.content.read or f.write raises; the async with closes the file. *)
IOFault(n) ==
    /\ Running
    /\ n \in DOMAIN tasks
    /\ tasks[n].pc = "read"
    /\ tasks[n].left > 0
    /\ Step(n, Raised(tasks[n], "exc", "OSError"))
    /\ handles' = aexit(handles, {filename(tasks[n].folder, tasks[n].url)})
    /\ UNCHANGED <<folders, files>>

(***************************************************************************)
(* main(): the while loop.                                                 *)
(***************************************************************************)
AllDoneFirst == tasks # <<>> => tasks[1].pc = "done"
AllDone == \A n \in DOMAIN tasks : tasks[n].pc = "done"

LoopQuitsNever(errs) == FALSE
LoopQuits(errs) == errs # <<>>

(* The sleep of line 148 returns, while True, if errors: return.  main()  *)
(* returns, asyncio.wait_for returns and asyncio.run cancels what is left; *)
(* the process ends normally.                                              *)
Quit ==
    /\ Running
    /\ pc = "sleep"
    /\ LoopQuits(errors)
    /\ pc' = "returned"
    /\ tasks' = <<>>
    /\ exit_status' = "exit0"
    /\ handles' = aexit(handles, handles)
    /\ UNCHANGED <<cycle, errors, a_urls, c_urls, all_comment_urls, gi, present,
                   scheduled, store0, folders, files, top_exc, envVars,
                   splitVars>>

(* main() is entered, or the sleep of line 148 returns; while True, errors *)
(* is empty, try: await get_urls_from_main(session, options)               *)
StartCycle ==
    /\ Running
    /\ pc \in {"start", "sleep"}
    /\ ~LoopQuits(errors)
    /\ cycle < MaxCycles
    /\ cycle' = cycle + 1
    /\ pc' = "index"
    /\ tasks' = <<NewTask("index", MAIN_URL, 0)>>
    /\ present' = {}
    /\ scheduled' = <<>>
    /\ store0' = [folders |-> folders, files |-> files]
    /\ UNCHANGED <<errors, a_urls, c_urls, all_comment_urls, gi, storeVars,
                   procVars, envVars, splitVars>>

(* a_urls, c_urls = ...; all_comment_urls = [] *)
IndexParsed ==
    /\ Running
    /\ pc = "index"
    /\ AllDone
    /\ a_urls' = tasks[1].result[1]
    /\ c_urls' = tasks[1].result[2]
    /\ all_comment_urls' = <<>>
    /\ gi' = 1
    /\ pc' = "harvest"
    /\ tasks' = <<>>
    /\ UNCHANGED <<cycle, errors, present, scheduled, store0, storeVars,
                   procVars, envVars, splitVars>>

(* The tasks built from one group of c_urls (lines 118-126). *)
RECURSIVE harvest_tasks(_)
harvest_tasks(group) ==
    IF group = <<>> THEN <<>>
    ELSE (IF Head(group) = None THEN <<>>
          ELSE <<NewTask("harvest", Head(group), 0)>>)
         \o harvest_tasks(Tail(group))

(* for group in split_list(c_urls, ...): ...; asyncio.gather of the tasks *)
StartHarvestGroup ==
    /\ Running
    /\ pc = "harvest"
    /\ gi <= Len(split_list(c_urls, max_connections))
    /\ tasks' = harvest_tasks(split_list(c_urls, max_connections)[gi])
    /\ pc' = "gather_h"
    /\ UNCHANGED <<cycle, errors, a_urls, c_urls, all_comment_urls, gi, present,
                   scheduled, store0, storeVars, procVars, envVars, splitVars>>

(* all_comment_urls.extend(await asyncio.gather of the tasks) *)
HarvestGathered ==
    /\ Running
    /\ pc = "gather_h"
    /\ AllDone
    /\ all_comment_urls' =
          all_comment_urls \o [n \in DOMAIN tasks |-> tasks[n].result]
    /\ gi' = gi + 1
    /\ pc' = "harvest"
    /\ tasks' = <<>>
    /\ UNCHANGED <<cycle, errors, a_urls, c_urls, present, scheduled, store0,
                   storeVars, procVars, envVars, splitVars>>

(* The first for loop is over. *)
EndHarvest ==
    /\ Running
    /\ pc = "harvest"
    /\ gi > Len(split_list(c_urls, max_connections))
    /\ gi' = 1
    /\ pc' = "download"
    /\ UNCHANGED <<cycle, errors, a_urls, c_urls, all_comment_urls, tasks, present,
                   scheduled, store0, storeVars, procVars, envVars, splitVars>>

(* The groups the second for loop runs over (lines 129-132). *)
DownloadGroups ==
    zip(split_list(a_urls, max_connections),
        split_list(all_comment_urls, max_connections))

(* The <<url, folder>> of the tasks built from one pair of groups (lines   *)
(* 133-141); the folder of an article is its basename under options.folder *)
RECURSIVE download_jobs_unchecked(_)
download_jobs_unchecked(pairs) ==
    IF pairs = <<>> THEN <<>>
    ELSE LET article_url == Head(pairs)[1]
             comments_urls == Head(pairs)[2]
             folder == basename(article_url)
         IN (<<<<article_url, folder>>>>
             \o [k \in DOMAIN comments_urls |-> <<comments_urls[k], folder>>])
            \o download_jobs_unchecked(Tail(pairs))

RECURSIVE download_jobs(_)
download_jobs(pairs) ==
    IF pairs = <<>> THEN <<>>
    ELSE LET article_url == Head(pairs)[1]
             comments_urls == Head(pairs)[2]
             folder == basename(article_url)
         IN (IF folder \in folders THEN <<>>
             ELSE <<<<article_url, folder>>>>
                  \o [k \in DOMAIN comments_urls |-> <<comments_urls[k], folder>>])
            \o download_jobs(Tail(pairs))

FoundPresent(pairs) ==
    {basename(pairs[k][1]) : k \in DOMAIN pairs} \cap folders

(* for group_a, group_c in zip(...): ...; asyncio.gather of the tasks *)
StartDownloadGroup ==
    /\ Running
    /\ pc = "download"
    /\ gi <= Len(DownloadGroups)
    /\ LET pairs == zip(DownloadGroups[gi][1], DownloadGroups[gi][2])
           jobs == download_jobs(pairs)
       IN /\ tasks' = [n \in DOMAIN jobs |->
                          NewTask("download", jobs[n][1], jobs[n][2])]
          /\ scheduled' = scheduled \o jobs
          /\ present' = present \cup FoundPresent(pairs)
    /\ pc' = "gather_d"
    /\ UNCHANGED <<cycle, errors, a_urls, c_urls, all_comment_urls, gi, store0,
                   storeVars, procVars, envVars, splitVars>>

(* await asyncio.gather of the tasks returns *)
DownloadGathered ==
    /\ Running
    /\ pc = "gather_d"
    /\ AllDone
    /\ gi' = gi + 1
    /\ pc' = "download"
    /\ tasks' = <<>>
    /\ UNCHANGED <<cycle, errors, a_urls, c_urls, all_comment_urls, present,
                   scheduled, store0, storeVars, procVars, envVars, splitVars>>

(* The second for loop is over: await asyncio.sleep(options.time_update) *)
EndDownload ==
    /\ Running
    /\ pc = "download"
    /\ gi > Len(DownloadGroups)
    /\ pc' = "sleep"
    /\ UNCHANGED <<cycle, errors, a_urls, c_urls, all_comment_urls, gi, tasks,
                   present, scheduled, store0, storeVars, procVars, envVars,
                   splitVars>>

(***************************************************************************)
(* __main__: asyncio.run(asyncio.wait_for(main(opts), opts.time_update))   *)
(***************************************************************************)
(* The timer of wait_for fires: main() and the coroutines it awaits are    *)
(* cancelled, asyncio.TimeoutError reaches the except of line 166 and      *)
(* sys.exit(1) ends the process.  The deadline is options.time_update, the *)
(* duration of the sleep of line 148 as well: it is due by the time that   *)
(* sleep returns, so Quit and a second StartCycle stand for the runs in    *)
(* which the timer of the sleep is served first.                           *)
Deadline ==
    /\ Running
    /\ tasks' = <<>>
    /\ top_exc' = "TimeoutError"
    /\ exit_status' = "exit1"
    /\ handles' = aexit(handles, handles)
    /\ UNCHANGED <<mainVars, folders, files, envVars, splitVars>>

Next ==
    \/ \E n \in 1..Len(tasks), status \in Statuses : Respond(n, status)
    \/ \E n \in 1..Len(tasks) : TransportFault(n)
    \/ \E n \in 1..Len(tasks) : RetrySleepDone(n)
    \/ \E n \in 1..Len(tasks) : FolderExists(n)
    \/ \E n \in 1..Len(tasks) : Mkdir(n)
    \/ \E n \in 1..Len(tasks) : OpenFile(n)
    \/ \E n \in 1..Len(tasks) : ReadChunk(n)
    \/ \E n \in 1..Len(tasks) : IOFault(n)
    \/ Quit
    \/ StartCycle
    \/ IndexParsed
    \/ StartHarvestGroup
    \/ HarvestGathered
    \/ EndHarvest
    \/ StartDownloadGroup
    \/ DownloadGathered
    \/ EndDownload
    \/ Deadline

Spec == Init /\ [][Next]_vars

(* The crawler against an index page of at most one story: the fetch loop  *)
(* and the while loop of main() do not depend on the length of the         *)
(* listing.                                                                *)
SmallInit == Init /\ Len(site) <= 1

SmallSpec == SmallInit /\ [][Next]_vars

(***************************************************************************)
(* split_list on its own: one call with any list of at most MaxSplitLen    *)
(* items and any len_sublists of 1..MaxGroupSize.                          *)
(***************************************************************************)
SplitItems == 1..MaxSplitLen

SplitLists ==
    UNION {[1..n -> SplitItems] : n \in 0..MaxSplitLen}

SplitInit ==
    /\ site = <<>>
    /\ max_connections = 1
    /\ pc = "split"
    /\ cycle = 0
    /\ errors = <<>>
    /\ a_urls = <<>>
    /\ c_urls = <<>>
    /\ all_comment_urls = <<>>
    /\ gi = 1
    /\ tasks = <<>>
    /\ present = {}
    /\ scheduled = <<>>
    /\ folders = {}
    /\ files = [n \in {} |-> <<>>]
    /\ handles = {}
    /\ store0 = [folders |-> {}, files |-> [n \in {} |-> <<>>]]
    /\ exit_status = "running"
    /\ top_exc = "none"
    /\ arg_main_list \in SplitLists
    /\ arg_len_sublists \in 1..MaxGroupSize
    /\ ret_groups = <<>>

(* return groups_of_lists *)
SplitList ==
    /\ pc = "split"
    /\ ret_groups' = split_list(arg_main_list, arg_len_sublists)
    /\ pc' = "split_done"
    /\ UNCHANGED <<cycle, errors, a_urls, c_urls, all_comment_urls, gi, tasks,
                   present, scheduled, store0, storeVars, procVars, envVars,
                   arg_main_list, arg_len_sublists>>

SplitNext == SplitList

SplitSpec == SplitInit /\ [][SplitNext]_vars

(***************************************************************************)
(* Properties.                                                             *)
(***************************************************************************)
(* The GETs that were issued and not answered yet. *)
InFlight == Cardinality({n \in DOMAIN tasks : tasks[n].pc = "get"})

(* The first for loop of the cycle is over and nothing has failed. *)
Harvested == pc \in {"download", "gather_d"}

(* The cycle ran to the sleep of line 148 without an exception. *)
CycleSucceeded == pc = "sleep" /\ errors = <<>>

(* The URLs of the downloads scheduled in this cycle into a folder. *)
JobsInto(folder) ==
    LET IsInto(job) == job[2] = folder
        jobs == SelectSeq(scheduled, IsInto)
    IN [k \in DOMAIN jobs |-> jobs[k][1]]

(* What the thread of article i holds, <<>> without a comments link. *)
HarvestOf(i) ==
    IF c_urls[i] = None THEN <<>> ELSE parse_comments_page(c_urls[i])

Range(seq) == {seq[k] : k \in DOMAIN seq}

(* C1: once the comment harvest of a cycle is over, all_comment_urls has   *)
(* one entry per article of the listing, in article order: the links of    *)
(* the article's thread, or the empty sequence without a comments link.    *)
C1_Alignment ==
    Harvested =>
        /\ Len(all_comment_urls) = Len(a_urls)
        /\ \A i \in DOMAIN all_comment_urls : all_comment_urls[i] = HarvestOf(i)

(* C2: when a cycle ends without an error, every article of the listing    *)
(* whose folder was not found to exist has had exactly one download        *)
(* scheduled for its URL and one for each link of its own thread, all into *)
(* its folder.                                                             *)
C2_DownloadsPerArticle ==
    CycleSucceeded =>
        \A i \in DOMAIN a_urls :
            basename(a_urls[i]) \notin present =>
                LET jobs == JobsInto(basename(a_urls[i]))
                IN /\ Len(jobs) = 1 + Len(HarvestOf(i))
                   /\ Range(jobs) = {a_urls[i]} \cup Range(HarvestOf(i))

(* C3: never more than options.max_connections fetches are in flight. *)
C3_BoundedConcurrency == InFlight <= max_connections

(* C4: a fetch issues a GET only after a sleep for every earlier non-200   *)
(* response, never more than max_retry of them, and it returns the empty   *)
(* result exactly when max_retry GETs were each answered non-200 and slept *)
(* on; it has not raised then.                                             *)
C4_RetryExhaustion ==
    \A n \in DOMAIN tasks :
        LET t == tasks[n]
        IN /\ t.gets <= max_retry
           /\ t.pc \in {"get", "sleep"} => t.gets >= 1 /\ t.sleeps = t.gets - 1
           /\ t.ret = "empty" <=> (t.gets = max_retry /\ t.sleeps = max_retry)
           /\ t.ret = "empty" /\ t.kind = "download" => t.pc = "done"

C4_Witness ==
    \E n \in DOMAIN tasks :
        /\ tasks[n].kind = "download"
        /\ tasks[n].ret = "empty"
        /\ tasks[n].gets = max_retry

(* C5: no fetch ends by raising the transport fault of one of its attempts *)
C5_FetchNeverRaises ==
    \A n \in DOMAIN tasks : tasks[n].exc # "ClientError"

(* C6: no failure of a comment page's fetch or parse becomes the error of  *)
(* the cycle.                                                              *)
C6_HarvestFailureCaptured ==
    \A k \in DOMAIN errors : errors[k].origin # "harvest"

(* C7: when the deadline expires while main() is in the comment harvest or *)
(* in the download phase of a cycle, the process is not stopped.           *)
C7_DeadlineRestartsCycle ==
    (top_exc = "TimeoutError"
        /\ pc \in {"harvest", "gather_h", "download", "gather_d"}) => Running

(* C8: while the loop sleeps after a cycle without error the process is    *)
(* alive, so that the next cycle is started.                               *)
C8_NextCycleAfterSuccess == CycleSucceeded => Running

(* C9: once errors holds an exception it keeps it, and no step starts a    *)
(* cycle, an index fetch, a comment harvest or a download.                 *)
C9_NoCycleAfterFailure ==
    [][errors # <<>> =>
          /\ errors' # <<>>
          /\ cycle' = cycle
          /\ pc' \in {"sleep", "returned"}
          /\ Len(tasks') <= Len(tasks)
          /\ \A n \in DOMAIN tasks' :
                 /\ tasks'[n].kind = tasks[n].kind
                 /\ tasks'[n].url = tasks[n].url]_vars

C9_Witness == errors # <<>> /\ pc = "returned" /\ exit_status = "exit0"

(* C10: the exit status is non-zero only after a failed cycle and never on *)
(* account of the deadline, and it is not zero after a failed cycle.       *)
C10_ExitStatus ==
    /\ exit_status = "exit1" => errors # <<>> /\ top_exc # "TimeoutError"
    /\ exit_status = "exit0" => errors = <<>>

(* The files of a store under one folder. *)
FilesUnder(fs, folder) ==
    [name \in {m \in DOMAIN fs : m[1] = folder} |-> fs[name]]

(* C11: no mkdir of a download_html fails on a folder that a concurrent    *)
(* download_html has created, and no cycle fails on it.                    *)
C11_TolerantMkdir ==
    /\ \A n \in DOMAIN tasks : tasks[n].exc # "FileExistsError"
    /\ \A k \in DOMAIN errors : errors[k].exc # "FileExistsError"

BatchEnds ==
    pc \in {"gather_h", "gather_d"} /\ pc' \in {"harvest", "download"}

BatchStarts ==
    pc \notin {"gather_h", "gather_d"} /\ pc' \in {"gather_h", "gather_d"}

C14_BatchBarrier ==
    [][(BatchEnds \/ BatchStarts) =>
           \A n \in DOMAIN tasks : ~Active(tasks[n])]_vars

C14_Witness ==
    /\ gi = 2
    /\ pc \in {"gather_h", "gather_d"}
    /\ \E n \in DOMAIN tasks : Active(tasks[n])

(* The items of the groups, in order. *)
RECURSIVE Concat(_)
Concat(groups) ==
    IF groups = <<>> THEN <<>> ELSE Head(groups) \o Concat(Tail(groups))

(* C15: split_list returns non-empty groups of at most len_sublists items, *)
(* all but the last of exactly len_sublists, whose concatenation is the    *)
(* list; the empty list gives no groups.                                   *)
C15_SplitList ==
    pc = "split_done" =>
        /\ \A g \in DOMAIN ret_groups :
               /\ Len(ret_groups[g]) >= 1
               /\ Len(ret_groups[g]) <= arg_len_sublists
               /\ g < Len(ret_groups) => Len(ret_groups[g]) = arg_len_sublists
        /\ Concat(ret_groups) = arg_main_list
        /\ arg_main_list = <<>> => ret_groups = <<>>

C15_Witness ==
    /\ pc = "split_done"
    /\ Len(ret_groups) >= 2
    /\ Len(ret_groups[Len(ret_groups)]) < arg_len_sublists
    /\ \E i, j \in DOMAIN arg_main_list : arg_main_list[i] # arg_main_list[j]

(* C16: when every attempt to fetch the index page was answered by a       *)
(* status other than 200, get_urls_from_main does not raise and the cycle  *)
(* records no error for it.                                                *)
C16_ExhaustedIndexIsNoContent ==
    \A n \in DOMAIN tasks :
        tasks[n].kind = "index" /\ tasks[n].ret = "empty" =>
            /\ tasks[n].pc # "raised"
            /\ \A k \in DOMAIN errors : errors[k].origin # "index"

(* C17: at the end of a cycle without an error, every folder of the store  *)
(* holds the page of its article.                                          *)
C17_FolderMeansArticleSaved ==
    CycleSucceeded =>
        \A f \in folders : filename(f, ArticleUrl(f)) \in DOMAIN files

(* A download_html that has had no response of status 200 so far. *)
NoOkYet(t) ==
    /\ t.kind = "download"
    /\ t.pc \in {"get", "sleep"} \/ t.ret = "empty"

(* C18: a download_html that has had no response of status 200, exhausted  *)
(* or not, has not created or truncated its file, and the folder of an     *)
(* article exists only if one of the downloads into it had such a response.*)
C18_StoreOnlyOn200 ==
    \A n \in DOMAIN tasks :
        NoOkYet(tasks[n]) =>
            /\ filename(tasks[n].folder, tasks[n].url) \notin DOMAIN files
            /\ (\A m \in DOMAIN tasks :
                    tasks[m].folder = tasks[n].folder => NoOkYet(tasks[m]))
               => tasks[n].folder \notin folders

C18_Witness ==
    \E n, m \in DOMAIN tasks :
        /\ tasks[n].kind = "download"
        /\ tasks[n].pc = "done"
        /\ tasks[n].ret = "empty"
        /\ tasks[m].folder = tasks[n].folder
        /\ tasks[m].ret = "page"
        /\ tasks[n].folder \in folders

(* The chunks of a response body, in the order read. *)
Body == [k \in 1..BodyChunks |-> k]

IsPrefix(s, t) == Len(s) <= Len(t) /\ \A k \in DOMAIN s : s[k] = t[k]

(* The coroutines inside the async with of save_page on a file. *)
Writers(name) ==
    {n \in DOMAIN tasks :
        tasks[n].pc = "read" /\ filename(tasks[n].folder, tasks[n].url) = name}

(* C19: a file holds the chunks of its response in the order read, all of  *)
(* them once save_page has returned; a file is open only while a save_page *)
(* is inside its async with, and none is after the process has ended.      *)
C19_SavePage ==
    /\ \A name \in DOMAIN files : IsPrefix(files[name], Body)
    /\ \A n \in DOMAIN tasks :
           tasks[n].ret = "page" /\ tasks[n].kind = "download" =>
               files[filename(tasks[n].folder, tasks[n].url)] = Body
    /\ \A n \in DOMAIN tasks :
           tasks[n].pc = "read" =>
               Len(files[filename(tasks[n].folder, tasks[n].url)])
                   = BodyChunks - tasks[n].left
    /\ \A name \in handles : Writers(name) # {}
    /\ ~Running => handles = {}

C19_Witness ==
    /\ exit_status = "exit1"
    /\ handles = {}
    /\ \E name \in DOMAIN files :
           files[name] # <<>> /\ files[name] # Body

====
